---- MODULE Spec2Model ----
(***************************************************************************)
(* Model of quiz_web.py, a Streamlit quiz runner.  One action is one run   *)
(* of the script: Streamlit runs the script top to bottom once per widget  *)
(* event and once more after every st.rerun().  st.session_state is the    *)
(* state that survives between runs.                                       *)
(*                                                                         *)
(* Python strings that the program inspects (options, answers, chapter     *)
(* identifiers, labels) are tuples of character codes, so that strip() and *)
(* lower() are computed and not assumed.  "" is <<>>.                      *)
(***************************************************************************)
EXTENDS Integers, Sequences, FiniteSets, TLC

\* ---------------------------------------------------------------- bounds
\* random.shuffle is modelled by every arrangement for lists of at most
\* MaxPermLen elements and by the rotations and reversed rotations above it.
MaxPermLen == 4
\* Size of the largest question bank of SpecSample.
BigBankSize == 63
\* Largest number of distinct chapters in a question bank of SpecSort.
MaxChapters == 3

\* ------------------------------------------------------ program constants
\* full_pool[:60]
QuizLimit == 60

\* ---------------------------------------------------------------- strings
\* None, as returned by st.radio(index=None) before anything is picked.
None == <<-1>>

\* "General", the default of q.get("chapter", "General")
General == <<71, 101, 110, 101, 114, 97, 108>>

\* "CHAPTER " of f"CHAPTER {num}: {name}"
PrefixKnown == <<67, 72, 65, 80, 84, 69, 82, 32>>

\* ": " of f"CHAPTER {num}: {name}"
SepKnown == <<58, 32>>

\* "Chapter " of f"Chapter {num}"
PrefixOther == <<67, 104, 97, 112, 116, 101, 114, 32>>

\* the chapter_titles dictionary of show_home
chapter_titles ==
       (<<49>> :> <<84, 72, 69, 82, 77, 79, 68, 89, 78, 65, 77, 73, 67, 83>>)   \* "1": "THERMODYNAMICS"
    @@ (<<50>> :> <<70, 85, 69, 76, 83, 32, 38, 32, 67, 79, 77, 66, 85, 83, 84, 73, 79, 78>>)   \* "2": "FUELS & COMBUSTION"
    @@ (<<51>> :> <<68, 73, 69, 83, 69, 76, 32, 80, 79, 87, 69, 82, 32, 80, 76, 65, 78, 84>>)   \* "3": "DIESEL POWER PLANT"
    @@ (<<52>> :> <<71, 65, 83, 32, 84, 85, 82, 66, 73, 78, 69>>)   \* "4": "GAS TURBINE"
    @@ (<<53>> :> <<83, 84, 69, 65, 77, 32, 80, 79, 87, 69, 82, 32, 80, 76, 65, 78, 84>>)   \* "5": "STEAM POWER PLANT"
    @@ (<<54>> :> <<71, 69, 79, 84, 72, 69, 82, 77, 65, 76, 32, 38, 32, 78, 79, 78, 32, 67, 79, 78, 86, 69, 78, 84, 73, 79, 78, 65, 76>>)   \* "6": "GEOTHERMAL & NON CONVENTIONAL"
    @@ (<<55>> :> <<78, 85, 67, 76, 69, 65, 82, 32, 80, 79, 87, 69, 82, 32, 80, 76, 65, 78, 84>>)   \* "7": "NUCLEAR POWER PLANT"
    @@ (<<56>> :> <<66, 79, 73, 76, 69, 82, 83>>)   \* "8": "BOILERS"
    @@ (<<57>> :> <<72, 89, 68, 82, 79, 69, 76, 69, 67, 84, 82, 73, 67, 32, 80, 79, 87, 69, 82, 32, 80, 76, 65, 78, 84>>)   \* "9": "HYDROELECTRIC POWER PLANT"
    @@ (<<49, 48>> :> <<86, 65, 82, 73, 65, 66, 76, 69, 32, 76, 79, 65, 68, 32, 38, 32, 69, 78, 86, 73, 82, 79, 78, 77, 69, 78, 84, 65, 76>>)   \* "10": "VARIABLE LOAD & ENVIRONMENTAL"
    @@ (<<49, 49>> :> <<70, 76, 85, 73, 68, 32, 77, 69, 67, 72, 65, 78, 73, 67, 83>>)   \* "11": "FLUID MECHANICS"
    @@ (<<49, 50>> :> <<70, 76, 85, 73, 68, 32, 77, 65, 67, 72, 73, 78, 69, 82, 73, 69, 83>>)   \* "12": "FLUID MACHINERIES"
    @@ (<<49, 51>> :> <<72, 69, 65, 84, 32, 84, 82, 65, 78, 83, 70, 69, 82>>)   \* "13": "HEAT TRANSFER"
    @@ (<<49, 52>> :> <<82, 69, 70, 82, 73, 71, 69, 82, 65, 84, 73, 79, 78>>)   \* "14": "REFRIGERATION"
    @@ (<<49, 53>> :> <<65, 73, 82, 32, 67, 79, 78, 68, 73, 84, 73, 79, 78, 73, 78, 71>>)   \* "15": "AIR CONDITIONING"
    @@ (<<49, 54>> :> <<77, 65, 67, 72, 73, 78, 69, 32, 70, 79, 85, 78, 68, 65, 84, 73, 79, 78>>)   \* "16": "MACHINE FOUNDATION"
    @@ (<<49, 55>> :> <<73, 78, 83, 84, 82, 85, 77, 69, 78, 84, 65, 84, 73, 79, 78>>)   \* "17": "INSTRUMENTATION"
    @@ (<<49, 56>> :> <<66, 65, 83, 73, 67, 32, 69, 69>>)   \* "18": "BASIC EE"
    @@ (<<49, 57>> :> <<76, 65, 84, 69, 83, 84, 32, 66, 79, 65, 82, 68, 32, 81, 85, 69, 83, 84, 73, 79, 78, 83>>)   \* "19": "LATEST BOARD QUESTIONS"

\* Characters str.strip() removes: ASCII whitespace.
Whitespace == {9, 10, 11, 12, 13, 28, 29, 30, 31, 32}

\* str.lower() on one character
LowerChar(c) == IF c \in 65..90 THEN c + 32 ELSE c

\* str.lower()
Lower(s) == [i \in 1..Len(s) |-> LowerChar(s[i])]

RECURSIVE LStrip(_)
\* leading half of str.strip()
LStrip(s) ==
    IF s # <<>> /\ Head(s) \in Whitespace THEN LStrip(Tail(s)) ELSE s

RECURSIVE RStrip(_)
\* trailing half of str.strip()
RStrip(s) ==
    IF s # <<>> /\ s[Len(s)] \in Whitespace
    THEN RStrip(SubSeq(s, 1, Len(s) - 1)) ELSE s

\* str.strip()
Strip(s) == RStrip(LStrip(s))

\* mutant of IsCorrect: the comparison without strip() and lower()
IsCorrect_Exact(choice, correct) == choice = correct

\* user_choice.strip().lower() == correct.strip().lower()
IsCorrect(choice, correct) == Lower(Strip(choice)) = Lower(Strip(correct))

\* Python truthiness of the radio's value: None and "" are both falsy.
Falsy(choice) == choice = None \/ choice = <<>>

\* mutant of Take: the slice one element short at the limit
Take_OffByOne(lst, n) == SubSeq(lst, 1, IF Len(lst) < n THEN Len(lst) ELSE n - 1)

\* lst[:n]
Take(lst, n) == SubSeq(lst, 1, IF Len(lst) < n THEN Len(lst) ELSE n)

\* every arrangement of a list
Arrangements(lst) ==
    { [i \in 1..Len(lst) |-> lst[p[i]]] : p \in Permutations(1..Len(lst)) }

\* the rotations of a list and their reversals
Rotations(lst) ==
    LET n == Len(lst)
        rot(k) == [i \in 1..n |-> lst[((i + k - 1) % n) + 1]]
        rev(s) == [i \in 1..n |-> s[n + 1 - i]]
    IN  { rot(k) : k \in 0..(n - 1) } \cup { rev(rot(k)) : k \in 0..(n - 1) }

\* mutant of Shuffles: a draw with replacement in place of a shuffle
Shuffles_WithReplacement(lst) ==
    [1..Len(lst) -> { lst[i] : i \in 1..Len(lst) }]

\* random.shuffle(lst): the lists it can leave in lst
Shuffles(lst) ==
    IF Len(lst) <= MaxPermLen THEN Arrangements(lst) ELSE Rotations(lst)

\* q.get("chapter", "General")
ChapterOf(q) == IF "chapter" \in DOMAIN q THEN q.chapter ELSE General

\* set(q.get("chapter", "General") for q in data)
unique_chapters(data) == { ChapterOf(data[i]) : i \in 1..Len(data) }

\* \d of the regular expression, on one character
IsDigit(c) == c \in 48..57

RECURSIVE DigitRun(_)
\* the longest prefix of digits: what \d+ matches at the start of s
DigitRun(s) ==
    IF s # <<>> /\ IsDigit(Head(s)) THEN <<Head(s)>> \o DigitRun(Tail(s))
    ELSE <<>>

RECURSIVE FirstDigits(_)
\* re.search(r'\d+', str(x)).group(), and <<>> when re.search finds nothing
FirstDigits(s) ==
    IF s = <<>> THEN <<>>
    ELSE IF IsDigit(Head(s)) THEN DigitRun(s)
    ELSE FirstDigits(Tail(s))

RECURSIVE ParseInt(_)
\* int() of a string of digits
ParseInt(ds) ==
    IF ds = <<>> THEN 0
    ELSE 10 * ParseInt(SubSeq(ds, 1, Len(ds) - 1)) + (ds[Len(ds)] - 48)

\* the key lambda returns an int for x (re.search finds digits)
HasIntKey(x) == FirstDigits(x) # <<>>

\* int(re.search(r'\d+', str(x)).group())
IntKey(x) == ParseInt(FirstDigits(x))

RECURSIVE StrLess(_, _)
\* a < b on Python strings: lexicographic by code point
StrLess(a, b) ==
    IF b = <<>> THEN FALSE
    ELSE IF a = <<>> THEN TRUE
    ELSE IF Head(a) # Head(b) THEN Head(a) < Head(b)
    ELSE StrLess(Tail(a), Tail(b))

\* key(a) < key(b): int keys when every key is an int, str keys otherwise
KeyLess(kind, a, b) ==
    IF kind = "int" THEN IntKey(a) < IntKey(b) ELSE StrLess(a, b)

RECURSIVE Sorted(_, _)
\* sorted(lst, key=...): a stable sort, so an element goes behind every
\* earlier element that is not greater than it
Sorted(lst, kind) ==
    IF lst = <<>> THEN <<>>
    ELSE LET front == Sorted(SubSeq(lst, 1, Len(lst) - 1), kind)
             x     == lst[Len(lst)]
             keep  == Cardinality({ i \in 1..Len(front) :
                                      ~KeyLess(kind, x, front[i]) })
         IN  SubSeq(front, 1, keep) \o <<x>> \o SubSeq(front, keep + 1, Len(front))

\* the orders in which a set can be iterated
SetOrders(S) ==
    { o \in [1..Cardinality(S) -> S] :
        \A i, j \in 1..Cardinality(S) : i # j => o[i] # o[j] }

\* sorted() compares an int key with a str key: TypeError
KeysRaise(S) ==
    /\ \E x \in S : HasIntKey(x)
    /\ \E x \in S : ~HasIntKey(x)

\* get_sorted_chapters(data): the lists it can return, one for each
\* iteration order of the set
get_sorted_chapters(data) ==
    LET unique == unique_chapters(data)
    IN  { IF KeysRaise(unique) THEN Sorted(o, "str")
          ELSE IF \A x \in unique : HasIntKey(x) THEN Sorted(o, "int")
          ELSE Sorted(o, "str")
        : o \in SetOrders(unique) }

\* the label show_home builds for one chapter (str(ch) is ch: the model's
\* chapter identifiers are strings)
LabelOf(ch) ==
    LET num  == ch
        name == IF num \in DOMAIN chapter_titles THEN chapter_titles[num] ELSE <<>>
    IN  IF name # <<>> THEN PrefixKnown \o num \o SepKnown \o name
        ELSE PrefixOther \o num

\* options_map: label -> chapter.  LabelOf is injective on strings, so the
\* order in which the chapters are inserted does not matter.
options_map(data) ==
    [ l \in { LabelOf(ch) : ch \in unique_chapters(data) } |->
        CHOOSE ch \in unique_chapters(data) : LabelOf(ch) = l ]

\* -------------------------------------------------------- question banks
\* load_data() when questions.json is missing or corrupted
BankEmpty == <<>>

\* load_data() for a questions.json of three questions:
\*   {"chapter": "2",  "question": "Q1", "options": [" Gas ", "oil"], "answer": "gas"}
\*   {"chapter": "10", "question": "Q2", "options": ["", "B"],        "answer": "b"}
\*   {                 "question": "Q3", "options": ["y", "x", "x"],  "answer": "Y "}
BankSmall ==
    << [chapter |-> <<50>>, question |-> "Q1",
        options |-> << <<32, 71, 97, 115, 32>>, <<111, 105, 108>> >>,
        answer |-> <<103, 97, 115>>],
       [chapter |-> <<49, 48>>, question |-> "Q2",
        options |-> << <<>>, <<66>> >>,
        answer |-> <<98>>],
       [question |-> "Q3",
        options |-> << <<121>>, <<120>>, <<120>> >>,
        answer |-> <<89, 32>>] >>

\* load_data() for a questions.json of n questions: n - 2 of chapter "1",
\* then one of chapter "2", then one without a chapter.
BigBank(n) ==
    [ i \in 1..n |->
        IF i <= n - 2
        THEN [chapter |-> <<49>>, question |-> "Q",
              options |-> << <<103, 97, 115>>, <<111, 105, 108>> >>,
              answer |-> <<103, 97, 115>>]
        ELSE IF i = n - 1
        THEN [chapter |-> <<50>>, question |-> "Q",
              options |-> << <<103, 97, 115>>, <<111, 105, 108>> >>,
              answer |-> <<103, 97, 115>>]
        ELSE [question |-> "Q",
              options |-> << <<103, 97, 115>>, <<111, 105, 108>> >>,
              answer |-> <<103, 97, 115>>] ]

\* the question bank of one question for each chapter of chs, "General"
\* standing for a question without a chapter
ChapterBank(chs) ==
    [ i \in 1..Len(chs) |->
        IF chs[i] = General
        THEN [question |-> "Q",
              options |-> << <<103, 97, 115>>, <<111, 105, 108>> >>,
              answer |-> <<103, 97, 115>>]
        ELSE [chapter |-> chs[i], question |-> "Q",
              options |-> << <<103, 97, 115>>, <<111, 105, 108>> >>,
              answer |-> <<103, 97, 115>>] ]

\* chapter identifiers of the banks of SpecSort:
\* "10", "2", "02", "General" (by default) and "b"
ChapterIds == { <<49, 48>>, <<50>>, <<48, 50>>, General, <<98>> }

\* questions.json: missing, corrupted (content is what precedes the syntax
\* error) or a JSON list of questions
MissingFile == [status |-> "missing", content |-> <<>>]
CorruptedFile(bank) == [status |-> "corrupted", content |-> bank]
ValidFile(bank) == [status |-> "ok", content |-> bank]

LoadErrorText == "Error: questions.json is corrupted."

\* mutant of load_data: a corrupted file yields what could be parsed
load_data_Lenient(file) ==
    IF file.status = "missing" THEN [data |-> BankEmpty, error |-> ""]
    ELSE [data |-> file.content, error |-> ""]

\* load_data(): the list returned and the text given to st.error
load_data(file) ==
    IF file.status = "missing" THEN [data |-> BankEmpty, error |-> ""]
    ELSE IF file.status = "corrupted"
    THEN [data |-> BankEmpty, error |-> LoadErrorText]
    ELSE [data |-> file.content, error |-> ""]

\* ------------------------------------------------------------------ state
VARIABLES
    resource,          \* questions.json, fixed for the process
    load_error,        \* text shown by st.error in load_data
    all_data,          \* data = load_data(), fixed for the process
    chapters,          \* chapters = get_sorted_chapters(all_data) of the
                       \* last run of show_home
    quiz_data,         \* st.session_state.quiz_data: positions in all_data
    score,             \* st.session_state.score
    current_index,     \* st.session_state.current_index
    wrong_answers,     \* st.session_state.wrong_answers
    screen,            \* st.session_state.screen
    shuffled_options,  \* st.session_state.shuffled_options
    selected_labels,   \* value of the st.multiselect widget
    user_choice,       \* value of the st.radio widget of the current key
    notice,            \* text shown by st.warning in the last run
    pc,                \* "rerun" after st.rerun(), else "idle"
    event,             \* history: the widget event of the last run
    accepted,          \* history: accepted submissions since the last start
    restarted          \* history: "Take Another Quiz" has been pressed

vars == << resource, load_error, all_data, chapters, quiz_data, score, current_index, wrong_answers, screen,
           shuffled_options, selected_labels, user_choice, notice, pc, event,
           accepted, restarted >>

\* what load_data determines
loaded == << resource, load_error, all_data >>

\* the fields of st.session_state
session == << quiz_data, score, current_index, wrong_answers, screen,
              shuffled_options >>

NoNotice == ""
WarnChapter == "Please select at least one chapter."
WarnAnswer == "Please select an answer."

\* data = load_data() and the first run of show_home
InitLoad ==
    /\ all_data = load_data(resource).data
    /\ load_error = load_data(resource).error
    /\ chapters \in get_sorted_chapters(all_data)

\* the session state initialisation
InitSession ==
    /\ quiz_data = <<>>
    /\ score = 0
    /\ current_index = 0
    /\ wrong_answers = <<>>
    /\ screen = "home"
    /\ shuffled_options = <<>>
    /\ selected_labels = {}
    /\ user_choice = None
    /\ notice = NoNotice
    /\ pc = "idle"
    /\ event = "init"
    /\ accepted = 0
    /\ restarted = FALSE

Init ==
    /\ resource \in {MissingFile, CorruptedFile(BankSmall), ValidFile(BankSmall)}
    /\ InitLoad
    /\ InitSession

InitSample ==
    /\ resource \in { ValidFile(BigBank(n)) : n \in (BigBankSize - 1)..BigBankSize }
    /\ InitLoad
    /\ InitSession

InitSort ==
    /\ resource \in { ValidFile(ChapterBank(o)) :
                         o \in UNION { SetOrders(S) : S \in
                                { T \in SUBSET ChapterIds :
                                    Cardinality(T) \in 1..MaxChapters } } }
    /\ InitLoad
    /\ InitSession

\* ---------------------------------------------------------------- home
\* [q for q in all_data if q.get("chapter", "General") in selected_ids],
\* as positions in all_data
full_pool(selected_ids) ==
    SelectSeq([i \in 1..Len(all_data) |-> i],
              LAMBDA i : ChapterOf(all_data[i]) \in selected_ids)

\* [options_map[label] for label in selected_labels]
selected_ids(labels) == { options_map(all_data)[l] : l \in labels }

\* The user adds a label to the multiselect or removes one; the run that
\* follows has no button pressed.
ToggleChapter(l) ==
    /\ screen = "home" /\ pc = "idle"
    /\ chapters' \in get_sorted_chapters(all_data)
    /\ l \in DOMAIN options_map(all_data)
    /\ selected_labels' = IF l \in selected_labels
                          THEN selected_labels \ {l}
                          ELSE selected_labels \cup {l}
    /\ notice' = NoNotice
    /\ event' = "multiselect"
    /\ UNCHANGED << loaded, session, user_choice, pc, accepted, restarted >>

\* "Select All Chapters" is pressed: the run overwrites its local
\* selected_labels, START EXAM is not pressed in that run, and the run ends.
SelectAll ==
    /\ screen = "home" /\ pc = "idle"
    /\ chapters' \in get_sorted_chapters(all_data)
    /\ notice' = NoNotice
    /\ event' = "select_all"
    /\ UNCHANGED << loaded, session, selected_labels, user_choice, pc,
                    accepted, restarted >>

\* mutant of NoSelection: the test is inverted
NoSelection_Inverted(labels) == labels # {}

\* mutant of NoSelection: the empty selection is not rejected
NoSelection_Never(labels) == FALSE

\* not selected_labels
NoSelection(labels) == labels = {}

\* mutant of StartExam: the score is not reset
StartExam_KeepsScore ==
    /\ screen = "home" /\ pc = "idle"
    /\ chapters' \in get_sorted_chapters(all_data)
    /\ event' = "start"
    /\ IF selected_labels = {}
       THEN /\ notice' = "Please select at least one chapter."
            /\ UNCHANGED << session, pc, accepted >>
       ELSE /\ \E pool \in Shuffles(full_pool(selected_ids(selected_labels))) :
                 quiz_data' = Take(pool, QuizLimit)
            /\ current_index' = 0
            /\ wrong_answers' = <<>>
            /\ screen' = "quiz"
            /\ shuffled_options' = <<>>
            /\ notice' = ""
            /\ pc' = "rerun"
            /\ accepted' = 0
            /\ UNCHANGED score
    /\ UNCHANGED << loaded, selected_labels, user_choice, restarted >>

\* "START EXAM" is pressed.
StartExam ==
    /\ screen = "home" /\ pc = "idle"
    /\ chapters' \in get_sorted_chapters(all_data)
    /\ event' = "start"
    /\ IF NoSelection(selected_labels)
       THEN /\ notice' = WarnChapter
            /\ UNCHANGED << session, pc, accepted >>
       ELSE /\ \E pool \in Shuffles(full_pool(selected_ids(selected_labels))) :
                 quiz_data' = Take(pool, QuizLimit)
            /\ score' = 0
            /\ current_index' = 0
            /\ wrong_answers' = <<>>
            /\ screen' = "quiz"
            /\ shuffled_options' = <<>>
            /\ notice' = NoNotice
            /\ pc' = "rerun"
            /\ accepted' = 0
    /\ UNCHANGED << loaded, selected_labels, user_choice, restarted >>

\* the run that follows the st.rerun() of show_results
RerunHome ==
    /\ screen = "home" /\ pc = "rerun"
    /\ chapters' \in get_sorted_chapters(all_data)
    /\ pc' = "idle"
    /\ notice' = NoNotice
    /\ event' = "rerun"
    /\ UNCHANGED << loaded, session, selected_labels, user_choice, accepted,
                    restarted >>

\* ---------------------------------------------------------------- quiz
\* question_data = st.session_state.quiz_data[q_index]
question_data == all_data[quiz_data[current_index + 1]]

\* mutant of RenderedOptions: the options are shuffled in every run
RenderedOptions_Reshuffles == Shuffles(question_data.options)

\* show_quiz down to the radio: the values the options buffer can have
\* after it (shuffled only when the buffer is empty)
RenderedOptions ==
    IF shuffled_options = <<>>
    THEN Shuffles(question_data.options)
    ELSE {shuffled_options}

\* show_quiz can run: total is not 0 and quiz_data[q_index] exists
QuizRenders == current_index < Len(quiz_data)

\* the run that follows the st.rerun() of START EXAM or of an advance
RerunQuiz ==
    /\ screen = "quiz" /\ pc = "rerun"
    /\ QuizRenders
    /\ shuffled_options' \in RenderedOptions
    /\ selected_labels' = {}
    /\ pc' = "idle"
    /\ notice' = NoNotice
    /\ event' = "rerun"
    /\ UNCHANGED << loaded, chapters, quiz_data, score, current_index, wrong_answers,
                    screen, user_choice, accepted, restarted >>

\* The user picks an option of the radio; the run that follows renders the
\* question again and "Next Question" is not pressed.
ChooseAnswer(i) ==
    /\ screen = "quiz" /\ pc = "idle"
    /\ QuizRenders
    /\ i \in 1..Len(shuffled_options)
    /\ user_choice # shuffled_options[i]
    /\ user_choice' = shuffled_options[i]
    /\ shuffled_options' \in RenderedOptions
    /\ notice' = NoNotice
    /\ event' = "radio"
    /\ UNCHANGED << loaded, chapters, quiz_data, score, current_index, wrong_answers,
                    screen, selected_labels, pc, accepted, restarted >>

\* mutant of Finished: the exam ends one question early
Finished_Early(index, total) == index + 1 >= total

\* mutant of Finished: > in place of >=
Finished_Strict(index, total) == index > total

\* st.session_state.current_index >= total
Finished(index, total) == index >= total

\* mutant of NextQuestion: a wrong answer is not logged
NextQuestion_NoWrongLog ==
    /\ screen = "quiz" /\ pc = "idle"
    /\ QuizRenders
    /\ event' = "next"
    /\ LET total   == Len(quiz_data)
           correct == question_data.answer
       IN  IF Falsy(user_choice)
           THEN /\ notice' = "Please select an answer."
                /\ shuffled_options' \in RenderedOptions
                /\ UNCHANGED << score, current_index, wrong_answers, screen,
                                user_choice, pc, accepted >>
           ELSE /\ IF IsCorrect(user_choice, correct)
                   THEN /\ score' = score + 1
                        /\ UNCHANGED wrong_answers
                   ELSE UNCHANGED << score, wrong_answers >>
                /\ current_index' = current_index + 1
                /\ shuffled_options' = <<>>
                /\ screen' = IF current_index + 1 >= total
                             THEN "results" ELSE "quiz"
                /\ user_choice' = None
                /\ notice' = ""
                /\ pc' = "rerun"
                /\ accepted' = accepted + 1
    /\ UNCHANGED << loaded, chapters, quiz_data, selected_labels, restarted >>

\* "Next Question" is pressed.
NextQuestion ==
    /\ screen = "quiz" /\ pc = "idle"
    /\ QuizRenders
    /\ event' = "next"
    /\ LET total   == Len(quiz_data)
           correct == question_data.answer
       IN  IF Falsy(user_choice)
           THEN /\ notice' = WarnAnswer
                /\ shuffled_options' \in RenderedOptions
                /\ UNCHANGED << score, current_index, wrong_answers, screen,
                                user_choice, pc, accepted >>
           ELSE /\ IF IsCorrect(user_choice, correct)
                   THEN /\ score' = score + 1
                        /\ UNCHANGED wrong_answers
                   ELSE /\ wrong_answers' = Append(wrong_answers,
                                [question |-> question_data.question,
                                 selected |-> user_choice,
                                 correct  |-> correct])
                        /\ UNCHANGED score
                /\ current_index' = current_index + 1
                /\ shuffled_options' = <<>>
                /\ screen' = IF Finished(current_index + 1, total)
                             THEN "results" ELSE "quiz"
                /\ user_choice' = None
                /\ notice' = NoNotice
                /\ pc' = "rerun"
                /\ accepted' = accepted + 1
    /\ UNCHANGED << loaded, chapters, quiz_data, selected_labels, restarted >>

\* ------------------------------------------------------------- results
\* show_results can run: total is not 0
ResultsRenders == Len(quiz_data) # 0

\* the run that follows the st.rerun() of the last advance
RerunResults ==
    /\ screen = "results" /\ pc = "rerun"
    /\ ResultsRenders
    /\ pc' = "idle"
    /\ notice' = NoNotice
    /\ event' = "rerun"
    /\ UNCHANGED << loaded, chapters, session, selected_labels, user_choice, accepted,
                    restarted >>

\* mutant of TakeAnotherQuiz: the button goes back to the quiz
TakeAnotherQuiz_ToQuiz ==
    /\ screen = "results" /\ pc = "idle"
    /\ ResultsRenders
    /\ screen' = "quiz"
    /\ current_index' = 0
    /\ pc' = "rerun"
    /\ notice' = ""
    /\ event' = "restart"
    /\ restarted' = TRUE
    /\ UNCHANGED << loaded, chapters, quiz_data, score, wrong_answers,
                    shuffled_options, selected_labels, user_choice, accepted >>

\* mutant of TakeAnotherQuiz: the whole session is reset
TakeAnotherQuiz_ResetsAll ==
    /\ screen = "results" /\ pc = "idle"
    /\ ResultsRenders
    /\ screen' = "home"
    /\ quiz_data' = <<>>
    /\ score' = 0
    /\ current_index' = 0
    /\ wrong_answers' = <<>>
    /\ pc' = "rerun"
    /\ notice' = ""
    /\ event' = "restart"
    /\ restarted' = TRUE
    /\ UNCHANGED << loaded, chapters, shuffled_options, selected_labels, user_choice,
                    accepted >>

\* mutant of TakeAnotherQuiz: the score is reset with the screen
TakeAnotherQuiz_ClearsScore ==
    /\ screen = "results" /\ pc = "idle"
    /\ ResultsRenders
    /\ screen' = "home"
    /\ score' = 0
    /\ pc' = "rerun"
    /\ notice' = ""
    /\ event' = "restart"
    /\ restarted' = TRUE
    /\ UNCHANGED << loaded, chapters, quiz_data, current_index, wrong_answers,
                    shuffled_options, selected_labels, user_choice, accepted >>

\* "Take Another Quiz" is pressed.
TakeAnotherQuiz ==
    /\ screen = "results" /\ pc = "idle"
    /\ ResultsRenders
    /\ screen' = "home"
    /\ pc' = "rerun"
    /\ notice' = NoNotice
    /\ event' = "restart"
    /\ restarted' = TRUE
    /\ UNCHANGED << loaded, chapters, quiz_data, score, current_index, wrong_answers,
                    shuffled_options, selected_labels, user_choice, accepted >>

\* ------------------------------------------------------ specifications
Next ==
    \/ \E l \in DOMAIN options_map(all_data) : ToggleChapter(l)
    \/ SelectAll
    \/ StartExam
    \/ RerunHome
    \/ RerunQuiz
    \/ \E i \in 1..Len(shuffled_options) : ChooseAnswer(i)
    \/ NextQuestion
    \/ RerunResults
    \/ TakeAnotherQuiz

Spec == Init /\ [][Next]_vars

\* The sampling of START EXAM on banks larger than the limit.
NextSample ==
    \/ \E l \in DOMAIN options_map(all_data) : ToggleChapter(l)
    \/ StartExam

SpecSample == InitSample /\ [][NextSample]_vars

\* The chapter list of show_home on banks of up to MaxChapters chapters.
NextSort ==
    \/ \E l \in DOMAIN options_map(all_data) : ToggleChapter(l)
    \/ SelectAll

SpecSort == InitSort /\ [][NextSort]_vars

\* ----------------------------------------------------------------- claims
\* the chapters of a selection of labels, read off the labels themselves
ChaptersOfLabels(labels) ==
    { ch \in unique_chapters(all_data) : LabelOf(ch) \in labels }

\* P: the number of bank questions whose chapter is in the selection
MatchingPoolSize(labels) ==
    Cardinality({ i \in 1..Len(all_data) :
                    ChapterOf(all_data[i]) \in ChaptersOfLabels(labels) })

\* two lists hold the same values the same number of times
SameMultiset(a, b) ==
    /\ Len(a) = Len(b)
    /\ \A v \in { a[i] : i \in 1..Len(a) } \cup { b[i] : i \in 1..Len(b) } :
         Cardinality({ i \in 1..Len(a) : a[i] = v })
           = Cardinality({ i \in 1..Len(b) : b[i] = v })

\* C1: a start with a non-empty selection that matches P >= 1 questions
\* leaves exactly min(60, P) sampled questions, each of a selected chapter
\* (an absent chapter read as "General").
C1_SampleSizeAndChapters ==
    [][ (event' = "start" /\ selected_labels # {}
           /\ MatchingPoolSize(selected_labels) >= 1)
        => LET P == MatchingPoolSize(selected_labels)
           IN  /\ Len(quiz_data') = (IF P < 60 THEN P ELSE 60)
               /\ \A k \in 1..Len(quiz_data') :
                    ChapterOf(all_data[quiz_data'[k]])
                      \in ChaptersOfLabels(selected_labels) ]_vars

\* C1 witness: an exam was started from a pool of more than 60 questions
\* and holds 60 of them.
C1_Witness ==
    /\ event = "start" /\ screen = "quiz"
    /\ MatchingPoolSize(selected_labels) > 60
    /\ Len(quiz_data) = 60

\* C2: the N-th accepted submission since the start leaves
\* score + len(wrong_answers) = N and screen = results; results is entered
\* by that submission and by nothing else.
C2_AllAnsweredGivesResults ==
    /\ [][ (event' = "next" /\ accepted' = accepted + 1
              /\ accepted' = Len(quiz_data'))
           => (score' + Len(wrong_answers') = Len(quiz_data')
                 /\ screen' = "results") ]_vars
    /\ [][ (screen # "results" /\ screen' = "results")
           => (event' = "next" /\ accepted' = accepted + 1
                 /\ accepted' = Len(quiz_data)) ]_vars

\* C2 witness: an exam of three questions has just been answered to the end.
C2_Witness ==
    /\ event = "next" /\ screen = "results"
    /\ accepted = 3 /\ Len(quiz_data) = 3
    /\ score + Len(wrong_answers) = 3

\* C3: an accepted submission adds 1 to score exactly when the choice equals
\* the answer after strip() and lower() on both sides; otherwise score is
\* unchanged and one entry {question, selected, correct} of the current
\* question is appended to wrong_answers.
C3_ScoreIffNormalisedMatch ==
    [][ (event' = "next" /\ accepted' = accepted + 1)
        => LET q == question_data
           IN  IF Lower(Strip(user_choice)) = Lower(Strip(q.answer))
               THEN score' = score + 1 /\ wrong_answers' = wrong_answers
               ELSE /\ score' = score
                    /\ wrong_answers' =
                         wrong_answers \o << [question |-> q.question,
                                              selected |-> user_choice,
                                              correct  |-> q.answer] >> ]_vars

\* C3 witness: "Q1" (options " Gas " and "oil", answer "gas") was the first
\* question and scored, so " Gas " was accepted as "gas"; the second
\* question was then missed.
C3_Witness ==
    /\ event = "next" /\ current_index = 2
    /\ all_data[quiz_data[1]].question = "Q1"
    /\ score = 1 /\ Len(wrong_answers) = 1

\* C4: at one current_index the cached options, once set, are a permutation
\* of the question's options and stay the same through every later run,
\* rejected submissions included; they change only by being cleared in an
\* accepted submission or a start.
C4_ShuffledOptionsStable ==
    /\ [][ (screen' = "quiz" /\ shuffled_options' # <<>>)
           => SameMultiset(shuffled_options',
                           all_data'[quiz_data'[current_index' + 1]].options)
       ]_vars
    /\ [][ (shuffled_options # <<>> /\ shuffled_options' # shuffled_options)
           => /\ shuffled_options' = <<>>
              /\ \/ event' = "next" /\ current_index' = current_index + 1
                 \/ event' = "start" ]_vars

\* C4 witness: a submission was rejected and the question is shown again in
\* a cached order that differs from the order of the question's options.
C4_Witness ==
    /\ screen = "quiz" /\ event = "next" /\ notice = WarnAnswer
    /\ shuffled_options # <<>>
    /\ shuffled_options # question_data.options

\* C6: a start with no chapter selected shows the warning, stays on home and
\* leaves every session field as it was.
C6_EmptySelectionRejected ==
    [][ (event' = "start" /\ selected_labels = {})
        => /\ notice' = WarnChapter
           /\ screen' = "home" /\ screen = "home"
           /\ quiz_data' = quiz_data
           /\ score' = score
           /\ current_index' = current_index
           /\ wrong_answers' = wrong_answers
           /\ shuffled_options' = shuffled_options ]_vars

\* C6 witness: after a finished exam and a restart, a start with nothing
\* selected was answered by the warning.
C6_Witness ==
    /\ event = "start" /\ notice = WarnChapter /\ screen = "home"
    /\ selected_labels = {}
    /\ quiz_data # <<>> /\ current_index > 0

\* C7: a submission is rejected exactly when no option is selected: with no
\* selection it warns and changes nothing, with any displayed option selected
\* it is accepted and current_index grows by one.
C7_RejectedIffNothingSelected ==
    [][ event' = "next"
        => IF user_choice = None
           THEN /\ notice' = WarnAnswer
                /\ session' = session
           ELSE current_index' = current_index + 1 ]_vars

\* C8: restart sets screen to home and leaves the other session fields as
\* they were; on home they change only in a start that enters the quiz.
C8_RestartKeepsSession ==
    /\ [][ event' = "restart"
           => /\ screen = "results" /\ screen' = "home"
              /\ quiz_data' = quiz_data
              /\ score' = score
              /\ current_index' = current_index
              /\ wrong_answers' = wrong_answers
              /\ shuffled_options' = shuffled_options ]_vars
    /\ [][ (screen = "home"
              /\ << quiz_data, score, current_index, wrong_answers,
                    shuffled_options >>'
                 # << quiz_data, score, current_index, wrong_answers,
                       shuffled_options >>)
           => (event' = "start" /\ screen' = "quiz") ]_vars

\* C8 witness: restart has just been pressed after an exam with a right and
\* a wrong answer, and the exam's values are still there.
C8_Witness ==
    /\ event = "restart" /\ screen = "home"
    /\ quiz_data # <<>> /\ score > 0 /\ wrong_answers # <<>>
    /\ current_index = Len(quiz_data)

\* C9: every successful start, also after a finished exam and a restart,
\* leaves score 0, current_index 0, wrong_answers empty, no cached options
\* and screen quiz.
C9_StartResets ==
    [][ (event' = "start" /\ selected_labels # {})
        => /\ screen' = "quiz"
           /\ score' = 0
           /\ current_index' = 0
           /\ wrong_answers' = <<>>
           /\ shuffled_options' = <<>> ]_vars

\* C9 witness: an exam has just been started after a restart.
C9_Witness ==
    /\ event = "start" /\ screen = "quiz" /\ restarted
    /\ score = 0 /\ current_index = 0 /\ wrong_answers = <<>>

\* C10 as stated: right after restart every session field has its
\* fresh-session value.
C10_RestartResetsEverything ==
    event = "restart"
    => /\ screen = "home"
       /\ score = 0
       /\ current_index = 0
       /\ wrong_answers = <<>>
       /\ quiz_data = <<>>
       /\ shuffled_options = <<>>

\* C10 amended: right after restart screen is home and no options are
\* cached, while quiz_data, current_index, score and wrong_answers still
\* hold the finished exam: quiz_data is not empty, current_index is its
\* length and score + len(wrong_answers) is its length.
C10_RestartResetsScreenOnly ==
    event = "restart"
    => /\ screen = "home"
       /\ shuffled_options = <<>>
       /\ quiz_data # <<>>
       /\ current_index = Len(quiz_data)
       /\ score + Len(wrong_answers) = Len(quiz_data)
       /\ score + Len(wrong_answers) > 0

\* C10 witness: restart has just been pressed after an exam of three
\* questions, all answered right.
C10_Witness ==
    /\ event = "restart" /\ screen = "home"
    /\ Len(quiz_data) = 3 /\ score = 3 /\ wrong_answers = <<>>

\* the position of x in lst
PositionOf(lst, x) == CHOOSE i \in 1..Len(lst) : lst[i] = x

\* C11: for questions whose chapters are "10", "2" and "General" the chapter
\* list has "2" before "10".
C11_TwoBeforeTen ==
    unique_chapters(all_data) = { <<49, 48>>, <<50>>, General }
    => PositionOf(chapters, <<50>>) < PositionOf(chapters, <<49, 48>>)

\* C12: when every distinct chapter has a numeric substring the chapter list
\* holds the distinct chapters ordered by the integer of that substring, and
\* chapters of the same integer by their string form, whatever the iteration
\* order of the set.
C12_NumericOrderStringTieBreak ==
    (all_data # <<>> /\ \A ch \in unique_chapters(all_data) : FirstDigits(ch) # <<>>)
    => /\ Len(chapters) = Cardinality(unique_chapters(all_data))
       /\ { chapters[i] : i \in 1..Len(chapters) } = unique_chapters(all_data)
       /\ \A i, j \in 1..Len(chapters) :
            i < j =>
              \/ ParseInt(FirstDigits(chapters[i])) < ParseInt(FirstDigits(chapters[j]))
              \/ /\ ParseInt(FirstDigits(chapters[i])) = ParseInt(FirstDigits(chapters[j]))
                 /\ StrLess(chapters[i], chapters[j])

\* C14: with questions.json missing or corrupted the bank is empty (and the
\* error is shown for a corrupted file), the chapter list is empty and the
\* screen stays home for ever: every start is answered by the warning.
C14_NoResourceStaysHome ==
    /\ [] ( resource.status \in {"missing", "corrupted"}
            => /\ all_data = <<>>
               /\ chapters = <<>>
               /\ screen = "home" /\ quiz_data = <<>>
               /\ (resource.status = "corrupted"
                     => load_error = "Error: questions.json is corrupted.") )
    /\ [][ (resource.status \in {"missing", "corrupted"} /\ event' = "start")
           => (notice' = WarnChapter /\ screen' = "home") ]_vars

\* C14 witness: questions.json is corrupted and a start has just been
\* rejected.
C14_Witness ==
    /\ resource.status = "corrupted"
    /\ load_error = "Error: questions.json is corrupted."
    /\ event = "start" /\ notice = WarnChapter /\ screen = "home"

\* C15: quiz_data never holds a bank question twice, and it changes only in
\* a successful start: not in a submission, rejected or accepted, nor in a
\* restart.
C15_SampleDistinctAndFixed ==
    /\ [] ( \A i, j \in 1..Len(quiz_data) : i # j => quiz_data[i] # quiz_data[j] )
    /\ [][ quiz_data' # quiz_data
           => (event' = "start" /\ screen = "home" /\ screen' = "quiz") ]_vars

\* C15 witness: a sample of three questions has gone through three accepted
\* submissions and a restart.
C15_Witness ==
    /\ Len(quiz_data) = 3 /\ accepted = 3
    /\ event = "rerun" /\ screen = "home" /\ restarted

\* C16: current_index stays within 0..len(quiz_data) and below
\* len(quiz_data) on the quiz screen; the screen goes from quiz to results
\* in exactly the accepted submission that makes current_index equal to
\* len(quiz_data).
C16_IndexInRange ==
    /\ [] ( 0 <= current_index /\ current_index <= Len(quiz_data) )
    /\ [] ( screen = "quiz" => current_index < Len(quiz_data) )
    /\ [][ (screen = "quiz" /\ current_index' = current_index + 1)
           => (screen' = "results" <=> current_index' = Len(quiz_data')) ]_vars
    /\ [][ (screen = "quiz" /\ screen' = "results")
           => (event' = "next" /\ current_index' = current_index + 1) ]_vars

\* C16 witness: the second of two questions has just been submitted.
C16_Witness ==
    /\ event = "next" /\ screen = "results"
    /\ Len(quiz_data) = 2 /\ current_index = 2

\* C17: on the quiz and results screens quiz_data is never empty, so
\* q_index / total and score / total have a non-zero divisor.
C17_NoZeroDivisor ==
    screen \in {"quiz", "results"} => Len(quiz_data) # 0

\* C17 witness: the results of an exam of one question have been rendered.
C17_Witness ==
    /\ screen = "results" /\ pc = "idle" /\ event = "rerun"
    /\ Len(quiz_data) = 1

\* C18: screen is home, quiz or results, and it changes only from home to
\* quiz in a start, from quiz to results in the last accepted submission and
\* from results to home in a restart.
C18_ScreenTransitions ==
    /\ [] ( screen \in {"home", "quiz", "results"} )
    /\ [][ screen' # screen
           => \/ screen = "home" /\ screen' = "quiz" /\ event' = "start"
              \/ /\ screen = "quiz" /\ screen' = "results" /\ event' = "next"
                 /\ accepted' = Len(quiz_data)
              \/ screen = "results" /\ screen' = "home" /\ event' = "restart"
       ]_vars

\* C18 witness: the results screen has been reached a second time, after a
\* restart.
C18_Witness ==
    /\ screen = "results" /\ restarted /\ event = "next"

\* C19: score + len(wrong_answers) is current_index in every state; an
\* accepted submission adds one to exactly one of the two, and neither
\* decreases except in a start.
C19_ScorePlusWrongIsIndex ==
    /\ [] ( score + Len(wrong_answers) = current_index )
    /\ [][ (event' = "next" /\ current_index' # current_index)
           => \/ score' = score + 1 /\ Len(wrong_answers') = Len(wrong_answers)
              \/ score' = score /\ Len(wrong_answers') = Len(wrong_answers) + 1
       ]_vars
    /\ [][ event' # "start"
           => (score' >= score /\ Len(wrong_answers') >= Len(wrong_answers)) ]_vars

\* C19 witness: in the middle of an exam of three questions, one answer was
\* wrong and none right.
C19_Witness ==
    /\ screen = "quiz" /\ pc = "idle" /\ Len(quiz_data) = 3
    /\ current_index = 1 /\ score = 0 /\ Len(wrong_answers) = 1

\* C20: "select all" followed by "start", with nothing picked in the
\* multiselect, starts an exam over the whole bank: screen quiz and
\* min(60, bank size) sampled questions.
C20_SelectAllThenStart ==
    [][ (event = "select_all" /\ event' = "start"
           /\ selected_labels = {} /\ all_data # <<>>)
        => /\ screen' = "quiz"
           /\ Len(quiz_data') = (IF Len(all_data) < 60 THEN Len(all_data) ELSE 60)
      ]_vars

====
